---------------------------- MODULE Spec2Model ----------------------------
(***************************************************************************)
(* Model of address_geocoordinate.py: the address normaliser               *)
(* clean_address, the Photon client geocode_photon, the tiered resolver    *)
(* geocode_with_fallback, and the Streamlit script that calls them for a   *)
(* single address, a pasted list or an uploaded CSV and keeps the last     *)
(* table in st.session_state["results"].                                   *)
(*                                                                         *)
(* A Python str is a sequence of one-character strings.                    *)
(***************************************************************************)
EXTENDS Integers, Sequences, FiniteSets, TLC

VARIABLES
    results,    \* st.session_state["results"]: None or a sequence of rows
    pc,         \* position of the script: "idle" (waiting for a submit) or "loop"
    kind,       \* which form was submitted in the current/last run
    input,      \* what the user submitted in the current/last run
    addresses,  \* the list `addresses` of the multi-address branch
    i,          \* 1-based index of the next address of the batch loop
    out,        \* the local list `results` built by the batch loop
    calls,      \* arguments of the geocode_with_fallback calls of this run
    trace,      \* outbound effects (requests) of this run, in order
    msgs,       \* st.warning / st.error / st.info / st.success calls of this run
    arg,        \* function specifications: the input string
    answers,    \* function specifications: backend answers consumed by the call
    ret,        \* function specifications: what the call returned
    norm        \* function specifications: successive clean_address results

vars == <<results, pc, kind, input, addresses, i, out, calls, trace, msgs,
          arg, answers, ret, norm>>

appVars == <<results, pc, kind, input, addresses, i, out, calls, trace, msgs>>

-----------------------------------------------------------------------------
(* Bounds *)

\* longest input string given to clean_address
MaxLen == 5
\* longest generated address given to geocode_with_fallback
MaxAddrLen == 5
\* most lines of a pasted list / cells of a CSV column
MaxBatch == 2

-----------------------------------------------------------------------------
(* Python values *)

None == "None"
NaN == "NaN"

IsNull(v) == v \in {None, NaN}

\* characters str.strip() removes and \s matches
Whitespace == {" ", "\t", "\n"}

\* characters of the generated input strings of clean_address
Alphabet == {"-", ",", " ", "\t", "a"}
\* characters of the generated addresses of geocode_with_fallback
AddrAlphabet == {"-", ",", " ", "a"}

RECURSIVE lstrip(_, _)
lstrip(s, chars) ==
    IF s # <<>> /\ Head(s) \in chars THEN lstrip(Tail(s), chars) ELSE s

RECURSIVE rstrip(_, _)
rstrip(s, chars) ==
    IF s # <<>> /\ s[Len(s)] \in chars
    THEN rstrip(SubSeq(s, 1, Len(s) - 1), chars)
    ELSE s

\* str.strip(chars); str.strip() is strip(s, Whitespace)
strip(s, chars) == rstrip(lstrip(s, chars), chars)

\* length of the run of whitespace of s that starts at position k
RECURSIVE WsRun(_, _)
WsRun(s, k) ==
    IF k <= Len(s) /\ s[k] \in Whitespace THEN 1 + WsRun(s, k + 1) ELSE 0

\* re.sub(r"\s*-\s*", ", ", s), scanning from position k: leftmost greedy
\* non-overlapping matches
RECURSIVE SubDashFrom(_, _)
SubDashFrom(s, k) ==
    IF k > Len(s) THEN <<>>
    ELSE LET j == k + WsRun(s, k) IN
         IF j <= Len(s) /\ s[j] = "-"
         THEN <<",", " ">> \o SubDashFrom(s, j + 1 + WsRun(s, j + 1))
         ELSE <<s[k]>> \o SubDashFrom(s, k + 1)

sub_dash(s) == SubDashFrom(s, 1)

\* re.sub(r"\s+", " ", s), scanning from position k
RECURSIVE SubWsFrom(_, _)
SubWsFrom(s, k) ==
    IF k > Len(s) THEN <<>>
    ELSE IF s[k] \in Whitespace
         THEN <<" ">> \o SubWsFrom(s, k + WsRun(s, k))
         ELSE <<s[k]>> \o SubWsFrom(s, k + 1)

sub_ws(s) == SubWsFrom(s, 1)

\* a plausible slip: the final strip(", ") left out
clean_address_nostrip(addr) == sub_ws(sub_dash(strip(addr, Whitespace)))

clean_address(addr) ==
    LET addr_clean == sub_ws(sub_dash(strip(addr, Whitespace)))
    IN  strip(strip(addr_clean, {",", " "}), Whitespace)

\* str.split(sep) for a one-character sep
RECURSIVE split(_, _)
split(s, sep) ==
    IF \E k \in 1..Len(s) : s[k] = sep
    THEN LET k == CHOOSE m \in 1..Len(s) :
                      s[m] = sep /\ \A n \in 1..(m - 1) : s[n] # sep
         IN  <<SubSeq(s, 1, k - 1)>> \o split(SubSeq(s, k + 1, Len(s)), sep)
    ELSE <<s>>

\* sep.join(ps)
RECURSIVE join(_, _)
join(sep, ps) ==
    IF ps = <<>> THEN <<>>
    ELSE IF Len(ps) = 1 THEN ps[1]
    ELSE ps[1] \o sep \o join(sep, Tail(ps))

\* [p.strip() for p in ps if p.strip()]
RECURSIVE StripNonEmpty(_)
StripNonEmpty(ps) ==
    IF ps = <<>> THEN <<>>
    ELSE LET p == strip(Head(ps), Whitespace) IN
         IF p # <<>> THEN <<p>> \o StripNonEmpty(Tail(ps))
         ELSE StripNonEmpty(Tail(ps))

\* all strings over alphabet of length at most n
Strings(alphabet, n) == UNION {[1..m -> alphabet] : m \in 0..n}

-----------------------------------------------------------------------------
(* Normalisation applied repeatedly to one input *)

InitClean ==
    /\ arg \in Strings(Alphabet, MaxLen)
    /\ norm = <<>>
    /\ answers = <<>> /\ ret = [status |-> "none", value |-> <<>>]
    /\ results = [none |-> TRUE, rows |-> <<>>]
    /\ pc = "fn" /\ kind = None /\ input = [text |-> <<>>, file |-> "none"]
    /\ addresses = <<>> /\ i = 1 /\ out = <<>> /\ calls = <<>>
    /\ trace = <<>> /\ msgs = <<>>

\* norm holds clean_address(arg), clean_address(clean_address(arg))
Clean ==
    /\ Len(norm) < 2
    /\ norm' = Append(norm, clean_address(IF norm = <<>> THEN arg ELSE norm[Len(norm)]))
    /\ UNCHANGED <<arg, answers, ret>>
    /\ UNCHANGED appVars

SpecClean == InitClean /\ [][Clean]_vars

-----------------------------------------------------------------------------
(* The Photon backend and geocode_photon *)

\* What one GET to photon.komoot.io can produce: requests.get raising
\* (timeout, connection error), a body resp.json() cannot parse (HTTP error
\* page), JSON of the wrong shape (indexing raises), JSON without features, or
\* one feature whose geometry.coordinates is [lon, lat], either possibly null.
Coordinates == {<<"54.37", "24.49">>, <<"54.37", None>>, <<None, "24.49">>}

Responses ==
    {[status |-> st, features |-> <<>>] :
        st \in {"timeout", "http_error", "malformed", "ok"}}
    \cup {[status |-> "ok", features |-> <<c>>] : c \in Coordinates}

\* the outbound request of geocode_photon: params = {"q": addr, "limit": 1}
Get(addr) == [op |-> "GET", q |-> addr, limit |-> "1"]

\* a plausible slip: no try/except around the request and the parsing
geocode_photon_noexcept(addr, resp) ==
    IF resp.status # "ok"
    THEN [raised |-> TRUE, value |-> <<None, None>>, effects |-> <<Get(addr)>>]
    ELSE IF resp.features # <<>>
    THEN LET coords == resp.features[1]
         IN  [raised |-> FALSE, value |-> <<coords[2], coords[1]>>,
              effects |-> <<Get(addr)>>]
    ELSE [raised |-> FALSE, value |-> <<None, None>>, effects |-> <<Get(addr)>>]

\* value is the returned (lat, lon); raised says an exception left the function
geocode_photon(addr, resp) ==
    IF resp.status # "ok"
    THEN \* except Exception: return None, None
         [raised |-> FALSE, value |-> <<None, None>>, effects |-> <<Get(addr)>>]
    ELSE IF resp.features # <<>>
    THEN LET coords == resp.features[1]
         IN  [raised |-> FALSE, value |-> <<coords[2], coords[1]>>,
              effects |-> <<Get(addr)>>]
    ELSE [raised |-> FALSE, value |-> <<None, None>>, effects |-> <<Get(addr)>>]

-----------------------------------------------------------------------------
(* geocode_with_fallback *)

\* a plausible slip: `or` for `and`
matched_or(lat, lon) == lat # None \/ lon # None

\* lat is not None and lon is not None
matched(lat, lon) == lat # None /\ lon # None

\* parts = [p.strip() for p in addr_clean.split(",") if p.strip()]
parts_of(addr_clean) == StripNonEmpty(split(addr_clean, ","))

\* a plausible slip: the last two components instead of all but the first
fallback_addr_last_two(parts) ==
    join(<<",", " ">>,
         SubSeq(parts, IF Len(parts) >= 2 THEN Len(parts) - 1 ELSE 1, Len(parts)))

\* fallback_addr = ", ".join(parts[1:])
fallback_addr(parts) == join(<<",", " ">>, Tail(parts))

NotFound == <<None, None, "not found", <<"no match found">>>>

Raised(effects) == [raised |-> TRUE, value |-> <<>>, effects |-> effects]
Returned(value, effects) == [raised |-> FALSE, value |-> value, effects |-> effects]

\* a plausible slip: both tiers are queried before either answer is looked at
geocode_with_fallback_eager(addr, ans) ==
    LET addr_clean == clean_address(addr)
        r1 == geocode_photon(addr_clean, ans[1])
        parts == parts_of(addr_clean)
        r2 == geocode_photon(fallback_addr(parts), ans[2])
        e2 == IF Len(parts) >= 2 THEN r1.effects \o r2.effects ELSE r1.effects
    IN  IF matched(r1.value[1], r1.value[2])
        THEN Returned(<<r1.value[1], r1.value[2], "full", <<"matched full address">>>>, e2)
        ELSE IF Len(parts) >= 2 /\ matched(r2.value[1], r2.value[2])
        THEN Returned(<<r2.value[1], r2.value[2], "street+city",
                        <<"matched using fallback: ", fallback_addr(parts)>>>>, e2)
        ELSE Returned(NotFound, e2)

\* a plausible variant: a third tier that queries the last two components
geocode_with_fallback_city(addr, ans) ==
    LET addr_clean == clean_address(addr)
        r1 == geocode_photon(addr_clean, ans[1])
        parts == parts_of(addr_clean)
        r2 == geocode_photon(fallback_addr(parts), ans[2])
        e2 == IF Len(parts) >= 2 THEN r1.effects \o r2.effects ELSE r1.effects
        r3 == geocode_photon(fallback_addr_last_two(parts), ans[2])
    IN  IF matched(r1.value[1], r1.value[2])
        THEN Returned(<<r1.value[1], r1.value[2], "full", <<"matched full address">>>>,
                      r1.effects)
        ELSE IF Len(parts) >= 2 /\ matched(r2.value[1], r2.value[2])
        THEN Returned(<<r2.value[1], r2.value[2], "street+city",
                        <<"matched using fallback: ", fallback_addr(parts)>>>>, e2)
        ELSE IF Len(parts) >= 1 /\ matched(r3.value[1], r3.value[2])
        THEN Returned(<<r3.value[1], r3.value[2], "city", <<"matched city">>>>,
                      e2 \o r3.effects)
        ELSE Returned(NotFound, IF Len(parts) >= 1 THEN e2 \o r3.effects ELSE e2)

\* ans[k] is the backend's answer to the k-th request of the call.  An
\* exception leaving geocode_photon is not caught here and leaves this
\* function too.
geocode_with_fallback(addr, ans) ==
    LET addr_clean == clean_address(addr)
        \* 1. Full address
        r1 == geocode_photon(addr_clean, ans[1])
    IN  IF r1.raised THEN Raised(r1.effects)
        ELSE IF matched(r1.value[1], r1.value[2])
        THEN Returned(<<r1.value[1], r1.value[2], "full", <<"matched full address">>>>,
                      r1.effects)
        ELSE \* 2. Street+city fallback
             LET parts == parts_of(addr_clean) IN
             IF Len(parts) >= 2
             THEN LET r2 == geocode_photon(fallback_addr(parts), ans[2]) IN
                  IF r2.raised THEN Raised(r1.effects \o r2.effects)
                  ELSE IF matched(r2.value[1], r2.value[2])
                  THEN Returned(<<r2.value[1], r2.value[2], "street+city",
                                  <<"matched using fallback: ", fallback_addr(parts)>>>>,
                                r1.effects \o r2.effects)
                  ELSE Returned(NotFound, r1.effects \o r2.effects)
             ELSE Returned(NotFound, r1.effects)

-----------------------------------------------------------------------------
(* One call of geocode_with_fallback on an arbitrary string *)

\* the placeholder address of the single-address form
ExampleAddress ==
    <<"A", "l", " ", "M", "a", "s", "r", "a", "f", " ", "T", "o",
      "w", "e", "r", " ", "-", " ", "H", "a", "m", "d", "a", "n",
      " ", "B", "i", "n", " ", "M", "o", "h", "a", "m", "m", "e",
      "d", " ", "S", "t", " ", "-", " ", "A", "l", " ", "Z", "a",
      "h", "i", "y", "a", "h", " ", "-", " ", "A", "b", "u", " ",
      "D", "h", "a", "b", "i">>

NoCall == [status |-> "none", value |-> <<>>]

InitResolve ==
    /\ arg \in Strings(AddrAlphabet, MaxAddrLen) \cup {ExampleAddress}
    /\ norm = <<>>
    /\ answers = <<>> /\ ret = NoCall
    /\ results = [none |-> TRUE, rows |-> <<>>]
    /\ pc = "fn" /\ kind = None /\ input = [text |-> <<>>, file |-> "none"]
    /\ addresses = <<>> /\ i = 1 /\ out = <<>> /\ calls = <<>>
    /\ trace = <<>> /\ msgs = <<>>

\* the call, with the answers the backend gives to its requests
Resolve ==
    /\ ret = NoCall
    /\ \E ans \in Responses \X Responses :
          LET r == geocode_with_fallback(arg, ans) IN
          /\ ret' = [status |-> IF r.raised THEN "raised" ELSE "returned",
                     value |-> r.value]
          /\ trace' = r.effects
          /\ answers' = SubSeq(ans, 1, IF Len(r.effects) < Len(ans)
                                        THEN Len(r.effects) ELSE Len(ans))
    /\ UNCHANGED <<arg, norm>>
    /\ UNCHANGED <<results, pc, kind, input, addresses, i, out, calls, msgs>>

SpecResolve == InitResolve /\ [][Resolve]_vars

-----------------------------------------------------------------------------
(* The Streamlit script: one run per submit *)

\* str.splitlines() for "\n" line ends: no final empty line
splitlines(s) ==
    LET ps == split(s, "\n") IN
    IF ps[Len(ps)] = <<>> THEN SubSeq(ps, 1, Len(ps) - 1) ELSE ps

\* what the user types as one line of the text area
TypedPool == {<<"a", "-", "b">>, <<"c">>, <<" ">>}

\* what the user types into the single-address form
SinglePool == TypedPool \cup {<<>>}

\* the text area: up to MaxBatch typed lines
Texts ==
    {join(<<"\n">>, ls) : ls \in UNION {[1..m -> TypedPool] : m \in 0..MaxBatch}}

\* a cell of the uploaded table as pd.read_csv delivers it: NaN for an empty
\* field, the field's text otherwise (a blank field of a file with several
\* columns stays a string of spaces)
NaCell == [isna |-> TRUE, str |-> <<>>]
StrCell(x) == [isna |-> FALSE, str |-> x]
CellPool == {StrCell(<<"a", "-", "b">>), StrCell(<<"c">>), StrCell(<<" ">>), NaCell}

NoFile == [state |-> "none", columns |-> {}, cells |-> <<>>]

\* the cells of the tables that have no "address" column
OtherCellPool == {StrCell(<<"a", "-", "b">>), NaCell}

\* st.file_uploader: nothing, a file read_csv rejects, a table with the columns
\* "address" and "name", or one with "Address" and "name"; cells are those of
\* the first column, up to MaxBatch of them
Files ==
    {NoFile, [state |-> "unreadable", columns |-> {}, cells |-> <<>>]}
    \cup {[state |-> "table", columns |-> {"address", "name"}, cells |-> cs] :
            cs \in UNION {[1..m -> CellPool] : m \in 0..MaxBatch}}
    \cup {[state |-> "table", columns |-> {"Address", "name"}, cells |-> cs] :
            cs \in UNION {[1..m -> OtherCellPool] : m \in 0..MaxBatch}}

NoInput == [text |-> <<>>, file |-> NoFile]

NoResults == [none |-> TRUE, rows |-> <<>>]
Table(rows) == [none |-> FALSE, rows |-> rows]

Row(address, value) ==
    [address |-> address, latitude |-> value[1], longitude |-> value[2],
     match_type |-> value[3], comment |-> value[4]]

\* pd.to_numeric(errors="coerce") on one latitude/longitude value
to_numeric(v) == IF v \in {None, NaN} THEN NaN ELSE v

\* "Display results & map": the stored table's coordinate columns are
\* overwritten in place with their numeric form on every run
display(res) ==
    IF res.none THEN res
    ELSE Table([k \in 1..Len(res.rows) |->
                  [res.rows[k] EXCEPT !.latitude = to_numeric(@),
                                      !.longitude = to_numeric(@)]])

\* addresses of the "Paste list" branch
paste_addresses(text) ==
    IF strip(text, Whitespace) # <<>>
    THEN StripNonEmpty(splitlines(text))
    ELSE <<>>

\* df_up["address"].dropna().astype(str).tolist()
RECURSIVE dropna(_)
dropna(cells) ==
    IF cells = <<>> THEN <<>>
    ELSE IF Head(cells).isna THEN dropna(Tail(cells))
    ELSE <<Head(cells).str>> \o dropna(Tail(cells))

\* a plausible slip: the column is looked up ignoring case
csv_addresses_anycase(file) ==
    IF file.state = "none" THEN [addresses |-> <<>>, msgs |-> <<>>]
    ELSE IF file.state = "unreadable" THEN [addresses |-> <<>>, msgs |-> <<"error">>]
    ELSE [addresses |-> dropna(file.cells), msgs |-> <<"write">>]

\* addresses and messages of the "Upload CSV" branch
csv_addresses(file) ==
    IF file.state = "none" THEN [addresses |-> <<>>, msgs |-> <<>>]
    ELSE IF file.state = "unreadable" THEN [addresses |-> <<>>, msgs |-> <<"error">>]
    ELSE IF "address" \notin file.columns
    THEN [addresses |-> <<>>, msgs |-> <<"error">>]
    ELSE [addresses |-> dropna(file.cells), msgs |-> <<"write">>]

\* every address the forms of this model can hand to the resolver
AppAddresses == SinglePool \cup {c.str : c \in CellPool}

\* what a call geocode_with_fallback(a) can do, over all answers the backend
\* can give to its requests
Outcomes ==
    [a \in AppAddresses |->
        {geocode_with_fallback(a, ans) : ans \in Responses \X Responses}]

Init ==
    /\ results = NoResults
    /\ pc = "idle"
    /\ kind = None
    /\ input = NoInput
    /\ addresses = <<>> /\ i = 1 /\ out = <<>>
    /\ calls = <<>> /\ trace = <<>> /\ msgs = <<>>
    /\ arg = <<>> /\ answers = <<>> /\ ret = NoCall /\ norm = <<>>

\* "Convert" on the single-address form: the whole run
SubmitSingle ==
    /\ pc = "idle"
    /\ \E address \in SinglePool :
          /\ kind' = "single"
          /\ input' = [text |-> address, file |-> NoFile]
          /\ IF strip(address, Whitespace) = <<>>
             THEN /\ msgs' = <<"warning">>
                  /\ calls' = <<>> /\ trace' = <<>>
                  /\ results' = display(results)
             ELSE \E r \in Outcomes[address] :
                  /\ calls' = <<address>> /\ trace' = r.effects
                  /\ IF r.raised
                     THEN \* the exception ends the run before anything is stored
                          /\ msgs' = <<"info", "exception">>
                          /\ results' = results
                     ELSE /\ msgs' = <<"info", "success">>
                          /\ results' = display(Table(<<Row(address, r.value)>>))
    /\ addresses' = <<>> /\ i' = 1 /\ out' = <<>>
    /\ UNCHANGED <<pc, arg, answers, ret, norm>>

\* the run after the addresses have been collected: straight to the display
\* step when there are none, into the loop otherwise
StartBatch(addrs, collected) ==
    /\ addresses' = addrs
    /\ i' = 1 /\ out' = <<>> /\ calls' = <<>> /\ trace' = <<>>
    /\ IF addrs = <<>>
       THEN /\ msgs' = collected
            /\ results' = display(results)
            /\ pc' = "idle"
       ELSE /\ msgs' = Append(collected, "info")
            /\ results' = results
            /\ pc' = "loop"
    /\ UNCHANGED <<arg, answers, ret, norm>>

\* "Convert All" with a pasted list
SubmitPaste ==
    /\ pc = "idle"
    /\ \E text \in Texts :
          /\ kind' = "paste"
          /\ input' = [text |-> text, file |-> NoFile]
          /\ StartBatch(paste_addresses(text), <<>>)

\* "Convert All" with an uploaded CSV
SubmitCSV ==
    /\ pc = "idle"
    /\ \E file \in Files :
          /\ kind' = "csv"
          /\ input' = [text |-> <<>>, file |-> file]
          /\ StartBatch(csv_addresses(file).addresses, csv_addresses(file).msgs)

\* a plausible slip: an address without a match is skipped, no row appended
BatchStep_skip_unmatched ==
    /\ pc = "loop"
    /\ i <= Len(addresses)
    /\ \E r \in Outcomes[addresses[i]] :
          LET addr == addresses[i]
          IN  /\ calls' = Append(calls, addr)
              /\ trace' = trace \o r.effects
              /\ out' = IF r.value[3] = "not found" THEN out
                        ELSE Append(out, Row(addr, r.value))
              /\ i' = i + 1
              /\ UNCHANGED <<msgs, pc>>
    /\ UNCHANGED <<results, kind, input, addresses, arg, answers, ret, norm>>

\* one iteration of `for i, addr in enumerate(addresses)`
BatchStep ==
    /\ pc = "loop"
    /\ i <= Len(addresses)
    /\ \E r \in Outcomes[addresses[i]] :
          LET addr == addresses[i]
          IN  /\ calls' = Append(calls, addr)
              /\ trace' = trace \o r.effects
              /\ IF r.raised
                 THEN \* the exception ends the run before anything is stored
                      /\ msgs' = Append(msgs, "exception")
                      /\ pc' = "idle"
                      /\ UNCHANGED <<out, i>>
                 ELSE /\ out' = Append(out, Row(addr, r.value))
                      /\ i' = i + 1
                      /\ UNCHANGED <<msgs, pc>>
    /\ UNCHANGED <<results, kind, input, addresses, arg, answers, ret, norm>>

\* after the loop: the table is stored, then displayed
BatchEnd ==
    /\ pc = "loop"
    /\ i > Len(addresses)
    /\ results' = display(Table(out))
    /\ msgs' = Append(msgs, "success")
    /\ pc' = "idle"
    /\ UNCHANGED <<kind, input, addresses, i, out, calls, trace,
                   arg, answers, ret, norm>>

Next == SubmitSingle \/ SubmitPaste \/ SubmitCSV \/ BatchStep \/ BatchEnd

Spec == Init /\ [][Next]_vars

-----------------------------------------------------------------------------
(* Properties of one geocode_with_fallback call (SpecResolve) *)

\* the backend's answer carries both a latitude and a longitude
BackendMatch(resp) ==
    /\ resp.status = "ok"
    /\ resp.features # <<>>
    /\ resp.features[1][1] # None
    /\ resp.features[1][2] # None

\* the answer's latitude and longitude ([lon, lat] on the wire)
AnswerLat(resp) == resp.features[1][2]
AnswerLon(resp) == resp.features[1][1]

\* timeout, HTTP error or malformed payload
BackendFailure(resp) == resp.status # "ok"

\* AddressComponents of the spec: the normalized address split on commas into
\* trimmed non-empty pieces, in order
Components(x) == StripNonEmpty(split(clean_address(x), ","))

\* the components after the first, in order, joined with ", "
AllButFirst(c) == join(<<",", " ">>, [k \in 1..(Len(c) - 1) |-> c[k + 1]])

\* the last two components (or the only one) joined with ", "
LastTwo(c) ==
    IF Len(c) >= 2 THEN c[Len(c) - 1] \o <<",", " ">> \o c[Len(c)] ELSE c[1]

ExampleFallback ==
    <<"H", "a", "m", "d", "a", "n", " ", "B", "i", "n", " ", "M",
      "o", "h", "a", "m", "m", "e", "d", " ", "S", "t", ",", " ",
      "A", "l", " ", "Z", "a", "h", "i", "y", "a", "h", ",", " ",
      "A", "b", "u", " ", "D", "h", "a", "b", "i">>

Called == ret.status # "none"
MatchType == ret.value[3]

\* C1: the first request of a call is the normalized full address; if the
\* backend answers it with a match the call returns those coordinates tagged
\* "full" and issues no second request; a second request exists only when the
\* first answer was no match.
C1_FirstSuccessWins ==
    Called =>
        /\ Len(trace) >= 1
        /\ trace[1].q = clean_address(arg)
        /\ BackendMatch(answers[1]) =>
              /\ ret.status = "returned"
              /\ ret.value[1] = AnswerLat(answers[1])
              /\ ret.value[2] = AnswerLon(answers[1])
              /\ MatchType = "full"
              /\ Len(trace) = 1
        /\ Len(trace) >= 2 => ~BackendMatch(answers[1])

\* a full match on an address that has a street+city fallback available
C1_Witness ==
    /\ Called
    /\ BackendMatch(answers[1])
    /\ Len(Components(arg)) >= 2
    /\ MatchType = "full"

\* C2: whatever the backend does, the call returns one 4-tuple and no
\* exception leaves it; a failed request counts as a miss of its tier: after a
\* failed full query the street+city query is still issued when there are two
\* components, and the outcome is at worst "not found".
C2_NeverRaises ==
    Called =>
        /\ ret.status = "returned"
        /\ Len(ret.value) = 4
        /\ BackendFailure(answers[1]) =>
              /\ MatchType # "full"
              /\ Len(Components(arg)) >= 2 => Len(trace) = 2
              /\ Len(Components(arg)) < 2 => ret.value = NotFound
        /\ (Len(answers) = 2 /\ BackendFailure(answers[2])) => ret.value = NotFound

\* the full query times out and the street+city query then matches
C2_Witness ==
    /\ Called
    /\ answers[1].status = "timeout"
    /\ Len(answers) = 2
    /\ BackendMatch(answers[2])
    /\ MatchType = "street+city"

\* C3 as stated: "not found" is returned only after a further query for the
\* last two components (or the only one) has failed too.
C3_CityTierQueried ==
    (Called /\ ret.status = "returned" /\ MatchType = "not found"
        /\ Len(Components(arg)) >= 1) =>
        /\ Len(trace) = (IF Len(Components(arg)) >= 2 THEN 3 ELSE 2)
        /\ trace[Len(trace)].q = LastTwo(Components(arg))

\* C3 amended: there is no "city" tier.  The call issues the full query and,
\* when there are two or more components, the street+city query, and nothing
\* else; "not found" is returned as soon as these have failed, and no result is
\* tagged "city".
C3_NoCityTier ==
    (Called /\ ret.status = "returned") =>
        /\ MatchType # "city"
        /\ Len(trace) <= 2
        /\ MatchType = "not found" =>
              /\ Len(trace) = (IF Len(Components(arg)) >= 2 THEN 2 ELSE 1)
              /\ trace[1].q = clean_address(arg)
              /\ Len(trace) = 2 => trace[2].q = AllButFirst(Components(arg))
              /\ \A k \in 1..Len(answers) : ~BackendMatch(answers[k])

\* both tiers fail for an address of three components, whose last two
\* components a city tier would still have tried
C3_Witness ==
    /\ Called
    /\ MatchType = "not found"
    /\ Len(Components(arg)) >= 3
    /\ Len(trace) = 2
    /\ answers[2].status = "ok"

\* C4: when the normalized address has two or more components and the full
\* query is no match, the second request is exactly the components after the
\* first, in order, joined with ", "; a match on it is returned tagged
\* "street+city" with its (non-null) coordinates.  The form's example address
\* falls back to "Hamdan Bin Mohammed St, Al Zahiyah, Abu Dhabi".
C4_FallbackDropsFirst ==
    (Called /\ Len(Components(arg)) >= 2 /\ ~BackendMatch(answers[1])) =>
        /\ Len(trace) = 2
        /\ trace[2].q = AllButFirst(Components(arg))
        /\ arg = ExampleAddress => trace[2].q = ExampleFallback
        /\ BackendMatch(answers[2]) =>
              /\ ret.status = "returned"
              /\ MatchType = "street+city"
              /\ ret.value[1] = AnswerLat(answers[2]) /\ ret.value[1] # None
              /\ ret.value[2] = AnswerLon(answers[2]) /\ ret.value[2] # None

\* the example address, answered "no features" for the full string and a
\* match for the fallback
C4_Witness ==
    /\ Called
    /\ arg = ExampleAddress
    /\ answers[1] = [status |-> "ok", features |-> <<>>]
    /\ trace[2].q = ExampleFallback
    /\ MatchType = "street+city"

\* C10: a returned result is tagged "full", "street+city" or "not found";
\* both coordinates are null when it is "not found" and both are non-null
\* otherwise; an answer with only one coordinate is a miss of its tier.
C10_ResultShape ==
    (Called /\ ret.status = "returned") =>
        /\ MatchType \in {"full", "street+city", "not found"}
        /\ MatchType = "not found" <=> (ret.value[1] = None /\ ret.value[2] = None)
        /\ MatchType # "not found" => (ret.value[1] # None /\ ret.value[2] # None)
        /\ ~BackendMatch(answers[1]) => MatchType # "full"
        /\ (Len(answers) = 2 /\ ~BackendMatch(answers[2])) => MatchType = "not found"

\* the full query is answered with a longitude and no latitude
C10_Witness ==
    /\ Called
    /\ answers[1].features = <<<<"54.37", None>>>>
    /\ Len(answers) = 1
    /\ MatchType = "not found"

-----------------------------------------------------------------------------
(* Properties of the script (Spec) *)

Blank(x) == strip(x, Whitespace) = <<>>

BatchRun == kind \in {"paste", "csv"} /\ addresses # <<>>

\* C5: in a batch run the resolver is called once per address in input order
\* and each call appends one row carrying its address; a "not found" row has
\* null coordinates; appending a row leaves the earlier rows as they were; and
\* when the run is over the stored table has one row per address, row k being
\* the row produced for address k.
C5_BatchRows ==
    /\ [](BatchRun =>
            /\ Len(calls) <= Len(addresses)
            /\ calls = SubSeq(addresses, 1, Len(calls))
            /\ Len(out) = Len(calls)
            /\ \A k \in 1..Len(out) :
                  /\ out[k].address = addresses[k]
                  /\ out[k].match_type = "not found" =>
                        (IsNull(out[k].latitude) /\ IsNull(out[k].longitude))
            /\ pc = "idle" =>
                  /\ ~results.none
                  /\ Len(results.rows) = Len(addresses)
                  /\ \A k \in 1..Len(addresses) :
                        /\ results.rows[k].address = addresses[k]
                        /\ results.rows[k].match_type = out[k].match_type
                        /\ results.rows[k].match_type = "not found" =>
                              /\ IsNull(results.rows[k].latitude)
                              /\ IsNull(results.rows[k].longitude))
    /\ [][pc = "loop" =>
            /\ Len(out') >= Len(out)
            /\ \A k \in 1..Len(out) : out'[k] = out[k]]_vars

\* a finished batch whose first address failed every tier and whose second
\* address was found
C5_Witness ==
    /\ pc = "idle"
    /\ kind = "paste"
    /\ Len(addresses) >= 2
    /\ ~results.none
    /\ results.rows[1].match_type = "not found"
    /\ results.rows[1].latitude = NaN
    /\ results.rows[2].match_type # "not found"
    /\ results.rows[2].latitude = "24.49"

\* C6 as stated: no form ever hands an empty or whitespace-only address to
\* geocode_with_fallback (so no request is made and no row recorded for it).
C6_BlankNeverResolved ==
    \A k \in 1..Len(calls) : ~Blank(calls[k])

\* C7 as stated: a blocking delay lies between any two backend requests of
\* a run.
C7_DelayBetweenRequests ==
    \A k \in 2..Len(trace) :
        (trace[k].op = "GET") => (trace[k - 1].op = "sleep")

MissingColumn(f) == f.state = "table" /\ "address" \notin f.columns

\* C9: a submit of a CSV without a column named exactly "address" shows an
\* error, queues no address, calls the resolver for nothing, issues no request,
\* ends the run and leaves st.session_state["results"] as it was.
C9_MissingColumnRejected ==
    [][(pc = "idle" /\ kind' = "csv" /\ MissingColumn(input'.file)) =>
          /\ msgs' = <<"error">>
          /\ addresses' = <<>>
          /\ calls' = <<>>
          /\ trace' = <<>>
          /\ pc' = "idle"
          /\ results' = results]_vars

\* a table was stored by an earlier run, and the last submit was a CSV whose
\* column is called "Address" and holds an address
C9_Witness ==
    /\ pc = "idle"
    /\ kind = "csv"
    /\ MissingColumn(input.file)
    /\ \E k \in 1..Len(input.file.cells) : ~input.file.cells[k].isna
    /\ ~results.none
    /\ Len(results.rows) = 2

-----------------------------------------------------------------------------
(* Property of clean_address (SpecClean) *)

\* C8: normalization is idempotent: clean_address(clean_address(x)) equals
\* clean_address(x) for every string x over hyphens, commas, spaces, tabs and
\* letters.
C8_Idempotent ==
    Len(norm) = 2 => norm[2] = norm[1]

\* an input with a hyphen next to whitespace and a leading comma, which the
\* first pass rewrites and the second leaves alone
C8_Witness ==
    /\ Len(norm) = 2
    /\ arg = <<",", "a", "\t", "-", " ">>
    /\ norm[1] = <<"a">>
    /\ norm[2] = <<"a">>

=============================================================================
